---- MODULE Spec2Model ----
(***************************************************************************)
(* A model of the bindata command (src/bindata.go): run collects the files *)
(* named on the command line into vars.Files (AddPath), creates the output *)
(* and executes the template, which formats every collected file with      *)
(* ByteSliceFormatter.Format or StringFormatter.Format.                     *)
(*                                                                         *)
(* Strings (paths, keys, generated text) are sequences of one-character    *)
(* strings, so that path arithmetic, key ordering and the generated text   *)
(* are computed character by character as the program computes them.       *)
(***************************************************************************)
EXTENDS Integers, Sequences, FiniteSets, Bags, TLC

VARIABLES
    args,       \* fs.Args(): the roots named on the command line
    prefix,     \* -r
    AsString,   \* vars.AsString (-s)
    out,        \* -o ("" is standard output)
    content,    \* the bytes of every regular file of the file system
    fault,      \* the one I/O fault the environment injects in this run
    Files,      \* vars.Files: key -> formatter wrapping an open file
    handles,    \* the bag of the handles os.Open returned, with their state
    i,          \* number of roots run's loop has passed to AddPath
    pc,         \* position of run
    result,     \* what run returned
    outFile,    \* state of the output destination
    written     \* the entries the template wrote, in order

vars == <<args, prefix, AsString, out, content, fault, Files, handles, i, pc,
          result, outFile, written>>

-----------------------------------------------------------------------------
(* Bounds of the model *)

\* longest command line (number of roots)
MaxArgs == 2
\* read faults are injected after at most this many bytes
MaxFailAt == 2
\* longest file given to the formatters in SpecFormat
MaxLen == 33

-----------------------------------------------------------------------------
(* Strings *)

\* byte value of the characters that occur in paths
Code(c) ==
    CASE c = "." -> 46 [] c = "/" -> 47
      [] c = "a" -> 97 [] c = "b" -> 98 [] c = "c" -> 99 [] c = "d" -> 100
      [] c = "e" -> 101 [] c = "n" -> 110 [] c = "o" -> 111 [] c = "p" -> 112
      [] c = "t" -> 116 [] c = "x" -> 120

\* Go's < on strings: bytewise lexicographic order
RECURSIVE StrLess(_, _)
StrLess(s, t) ==
    IF t = <<>> THEN FALSE
    ELSE IF s = <<>> THEN TRUE
    ELSE IF Code(Head(s)) # Code(Head(t)) THEN Code(Head(s)) < Code(Head(t))
    ELSE StrLess(Tail(s), Tail(t))

RECURSIVE Concat(_)
Concat(ss) == IF ss = <<>> THEN <<>> ELSE Head(ss) \o Concat(Tail(ss))

-----------------------------------------------------------------------------
(* path/filepath, on Unix: Separator is '/' and volume names are empty *)

Separator == "/"

IsSlashed(p) == Len(p) > 0 /\ p[1] = Separator

\* the non-empty elements between separators
RECURSIVE Elems(_, _)
Elems(p, cur) ==
    IF p = <<>> THEN (IF cur = <<>> THEN <<>> ELSE <<cur>>)
    ELSE IF Head(p) = Separator
         THEN (IF cur = <<>> THEN <<>> ELSE <<cur>>) \o Elems(Tail(p), <<>>)
         ELSE Elems(Tail(p), Append(cur, Head(p)))

RECURSIVE JoinElems(_)
JoinElems(es) ==
    IF es = <<>> THEN <<>>
    ELSE IF Len(es) = 1 THEN es[1]
    ELSE es[1] \o <<Separator>> \o JoinElems(Tail(es))

Dot == <<".">>
DotDot == <<".", ".">>

\* Clean's element pass: drop ".", let ".." eat the element before it, drop
\* ".." at the root, keep leading ".." of a relative path
RECURSIVE CleanElems(_, _, _)
CleanElems(es, acc, rooted) ==
    IF es = <<>> THEN acc
    ELSE LET e == Head(es) IN
         IF e = Dot THEN CleanElems(Tail(es), acc, rooted)
         ELSE IF e = DotDot THEN
              IF acc # <<>> /\ acc[Len(acc)] # DotDot
              THEN CleanElems(Tail(es), SubSeq(acc, 1, Len(acc) - 1), rooted)
              ELSE IF rooted THEN CleanElems(Tail(es), acc, rooted)
              ELSE CleanElems(Tail(es), Append(acc, e), rooted)
         ELSE CleanElems(Tail(es), Append(acc, e), rooted)

\* Clean's result from the cleaned elements
CleanJoin(rooted, es) ==
    IF rooted THEN <<Separator>> \o JoinElems(es)
    ELSE IF es = <<>> THEN Dot
    ELSE JoinElems(es)

\* filepath.Clean
Clean(p) == CleanJoin(IsSlashed(p), CleanElems(Elems(p, <<>>), <<>>, IsSlashed(p)))

\* filepath.Join of two elements; an empty element is ignored
Join(dir, name) ==
    IF dir = <<>> THEN (IF name = <<>> THEN <<>> ELSE Clean(name))
    ELSE IF name = <<>> THEN Clean(dir)
    ELSE Clean(dir \o <<Separator>> \o name)

\* length of the longest common prefix of two element lists
RECURSIVE Common(_, _)
Common(bs, ts) ==
    IF bs = <<>> \/ ts = <<>> \/ Head(bs) # Head(ts) THEN 0
    ELSE 1 + Common(Tail(bs), Tail(ts))

RelError == [ok |-> FALSE, val |-> <<>>]

\* mutant of RelFrom: a target outside the base is refused
RelFromInsideOnly(bs, ts, n) ==
    IF n < Len(bs) THEN RelError
    ELSE [ok |-> TRUE, val |-> JoinElems(SubSeq(ts, n + 1, Len(ts)))]

\* Rel past the common elements: n elements of base and targ agree
RelFrom(bs, ts, n) ==
    IF n < Len(bs) /\ bs[n + 1] = DotDot THEN RelError
    ELSE [ok |-> TRUE,
          val |-> JoinElems([k \in 1..(Len(bs) - n) |-> DotDot] \o SubSeq(ts, n + 1, Len(ts)))]

RelElems(bs, ts) == RelFrom(bs, ts, Common(bs, ts))

\* Rel on the cleaned paths; a base of "." counts as empty
RelClean(base, targ) ==
    IF targ = base THEN [ok |-> TRUE, val |-> Dot]
    ELSE IF IsSlashed(base) # IsSlashed(targ) THEN RelError
    ELSE RelElems(IF base = Dot THEN <<>> ELSE Elems(base, <<>>), Elems(targ, <<>>))

\* filepath.Rel(basepath, targpath)
Rel(basepath, targpath) == RelClean(Clean(basepath), Clean(targpath))

-----------------------------------------------------------------------------
(* The file system the command runs in.  The working directory /a/b holds  *)
(* a.txt, b.txt and the directory c; c holds d.txt and the empty directory *)
(* e.  Nothing else exists (in particular "nope" does not).                *)

Cwd == <<"/", "a", "/", "b">>

nameA == <<"a", ".", "t", "x", "t">>
nameB == <<"b", ".", "t", "x", "t">>
nameC == <<"c">>
nameD == <<"d", ".", "t", "x", "t">>
nameE == <<"e">>
nameNope == <<"n", "o", "p", "e">>

fileA == Join(Cwd, nameA)
fileB == Join(Cwd, nameB)
dirC == Join(Cwd, nameC)
fileD == Join(dirC, nameD)
dirE == Join(dirC, nameE)

RegularFiles == {fileA, fileB, fileD}
Directories == {Cwd, dirC, dirE}

\* the names a directory holds
Children(d) ==
    IF d = Cwd THEN {nameA, nameB, nameC}
    ELSE IF d = dirC THEN {nameD, nameE}
    ELSE {}

\* the absolute, clean name of a path as the kernel resolves it
Resolve(path) ==
    IF IsSlashed(path) THEN Clean(path) ELSE Join(Cwd, path)

\* the file information of the resolved path p
FileInfo(path, p) ==
    IF path = <<>> \/ p \notin (RegularFiles \cup Directories)
    THEN [ok |-> FALSE, isDir |-> FALSE]
    ELSE [ok |-> TRUE, isDir |-> p \in Directories]

\* os.Stat
Stat(path) == FileInfo(path, Resolve(path))

NoFault == [kind |-> "none", path |-> <<>>, at |-> 0]

\* the faults a run may meet: a read error after `at` bytes of a file, an
\* open that is refused, a directory whose listing fails
Faults ==
    {NoFault}
    \cup {[kind |-> "read", path |-> f, at |-> k] : f \in {fileA}, k \in 0..MaxFailAt}
    \cup {[kind |-> "open", path |-> p, at |-> 0] : p \in {fileB, dirC}}
    \cup {[kind |-> "readdir", path |-> p, at |-> 0] : p \in {dirC}}
    \cup {[kind |-> "create", path |-> <<>>, at |-> 0]}

\* os.Open fails
OpenFails(path) == fault.kind = "open" /\ fault.path = Resolve(path)

\* dir.Readdirnames fails
ReaddirFails(path) == fault.kind = "readdir" /\ fault.path = Resolve(path)

\* the reader of file p returns an error other than io.EOF
ReadFails(p) ==
    fault.kind = "read" /\ fault.path = p /\ fault.at <= Len(content[p])

\* the bytes buf.ReadByte returns before it returns an error (io.EOF at the
\* end of the file, or the injected read error)
BytesRead(p) ==
    IF ReadFails(p) THEN SubSeq(content[p], 1, fault.at) ELSE content[p]

-----------------------------------------------------------------------------
(* The formatters *)

HexDigits == <<"0", "1", "2", "3", "4", "5", "6", "7",
               "8", "9", "a", "b", "c", "d", "e", "f">>

\* mutant of Hex02: the two digits in the wrong order
Hex02Swapped(b) == <<HexDigits[(b % 16) + 1], HexDigits[(b \div 16) + 1]>>

\* fmt's %02x of a byte
Hex02(b) == <<HexDigits[(b \div 16) + 1], HexDigits[(b % 16) + 1]>>

\* fmt's %#02x, of a byte, followed by the comma of the format string
SharpHex02Comma(b) == <<"0", "x">> \o Hex02(b) \o <<",">>

\* fmt's \\x%02x of a byte
EscHex02(b) == <<"\\", "x">> \o Hex02(b)

\* number of columns in the formatted byte slice
ByteSliceCols == 12

\* number of bytes per line in the formatted string
StringCols == 16

\* mutant of ByteSliceSep: the line is broken after the first byte of each
\* group of cols instead of before it
ByteSliceSepLate(k) ==
    IF k % ByteSliceCols = 1 \/ k = 0 THEN <<"\n", "\t", "\t">> ELSE <<" ">>

\* what ByteSliceFormatter.Format writes before byte k (counted from 0)
ByteSliceSep(k) ==
    IF k % ByteSliceCols = 0 THEN <<"\n", "\t", "\t">> ELSE <<" ">>

\* mutant of StringSep: no new sub-literal is opened before the first byte
StringSepNotFirst(k) ==
    IF k % StringCols = 0 /\ k > 0
    THEN <<"\"", " ", "+", "\n", "\t", "\t", "\"">> ELSE <<>>

\* what StringFormatter.Format writes before byte k (counted from 0)
StringSep(k) ==
    IF k % StringCols = 0 THEN <<"\"", " ", "+", "\n", "\t", "\t", "\"">> ELSE <<>>

\* the loop of ByteSliceFormatter.Format, from byte k on
RECURSIVE ByteSliceLoop(_, _)
ByteSliceLoop(bs, k) ==
    IF k >= Len(bs) THEN <<>>
    ELSE ByteSliceSep(k) \o SharpHex02Comma(bs[k + 1]) \o ByteSliceLoop(bs, k + 1)

\* ByteSliceFormatter.Format over a reader that yields bs and then an error
ByteSliceFormat(bs) ==
    <<"[", "]", "b", "y", "t", "e", "{">> \o ByteSliceLoop(bs, 0) \o <<"\n", "\t", "}">>

\* the loop of StringFormatter.Format, from byte k on
RECURSIVE StringLoop(_, _)
StringLoop(bs, k) ==
    IF k >= Len(bs) THEN <<>>
    ELSE StringSep(k) \o EscHex02(bs[k + 1]) \o StringLoop(bs, k + 1)

\* StringFormatter.Format over a reader that yields bs and then an error
StringFormat(bs) == <<"\"">> \o StringLoop(bs, 0) \o <<"\"">>

\* fmt's %#v of a key made of path characters: the Go-syntax quoted string
Quote(key) == <<"\"">> \o key \o <<"\"">>

-----------------------------------------------------------------------------
(* Collection *)

EmptyMap == [k \in {} |-> 0]

\* the state AddPath works on: vars.Files, the handles opened so far, and
\* the error it returns ("nil" for none)
CollectState(fs, hs, e) == [Files |-> fs, handles |-> hs, err |-> e]

\* return err
Fail(st, e) == CollectState(st.Files, st.handles, e)

\* a handle os.Open returned for path: a fresh handle on the file of that
\* name, positioned at its start and open
Handle(path, isDir) == [name |-> path, dir |-> isDir, closed |-> FALSE]

\* os.Open succeeded: one more open handle
Opened(st, path, isDir) ==
    CollectState(st.Files, st.handles (+) SetToBag({Handle(path, isDir)}), st.err)

\* vars.Files[key] = StringFormatter{file} or ByteSliceFormatter{file}, file
\* being the handle just opened for path
Store(st, key, path) ==
    CollectState(
        (key :> [fmt |-> IF AsString THEN "StringFormatter" ELSE "ByteSliceFormatter",
                 file |-> Handle(path, FALSE)]) @@ st.Files,
        st.handles, st.err)

\* AddPath after filepath.Rel: return its error, or store the formatter
AddRel(st, rel, path) ==
    IF ~rel.ok THEN Fail(st, "rel") ELSE Store(st, rel.val, path)

\* the regular-file branch of AddPath
AddFile(path, pre, st) ==
    IF OpenFails(path) THEN Fail(st, "open")
    ELSE AddRel(Opened(st, path, FALSE), Rel(pre, path), path)

(* Readdirnames returns the names of a directory in an order the file     *)
(* system chooses.  AddPath is therefore computed as the set of the states *)
(* it can leave behind, one for every order of every directory it lists.   *)

RECURSIVE AddPath(_, _, _), AddChildren(_, _, _, _)

\* one iteration of the loop of AddPath, on the child named file, from each
\* of the states sts; a state that holds an error has returned already
AddChild(path, file, pre, sts) ==
    UNION {IF s.err # "nil" THEN {s} ELSE AddPath(Join(path, file), pre, s) : s \in sts}

\* the loop of AddPath over the names of a directory still to be visited
AddChildren(path, files, pre, sts) ==
    IF files = {} THEN sts
    ELSE UNION {AddChildren(path, files \ {file}, pre, AddChild(path, file, pre, sts)) :
                    file \in files}

\* mutant of AddDir: listing a directory that holds nothing is an error
AddDirEmptyFails(path, pre, st) ==
    IF OpenFails(path) THEN {Fail(st, "open")}
    ELSE IF ReaddirFails(path) \/ Children(Resolve(path)) = {}
    THEN {Fail(Opened(st, path, TRUE), "readdir")}
    ELSE AddChildren(path, Children(Resolve(path)), pre, {Opened(st, path, TRUE)})

\* the directory branch of AddPath
AddDir(path, pre, st) ==
    IF OpenFails(path) THEN {Fail(st, "open")}
    ELSE IF ReaddirFails(path) THEN {Fail(Opened(st, path, TRUE), "readdir")}
    ELSE AddChildren(path, Children(Resolve(path)), pre, {Opened(st, path, TRUE)})

\* AddPath after os.Stat
AddStat(fi, path, pre, st) ==
    IF ~fi.ok THEN {Fail(st, "stat")}
    ELSE IF fi.isDir THEN AddDir(path, pre, st)
    ELSE {AddFile(path, pre, st)}

\* AddPath(path, prefix) from state st
AddPath(path, pre, st) == AddStat(Stat(path), path, pre, st)

-----------------------------------------------------------------------------
(* Rendering *)

\* mutant of RangeKeys: the keys by descending order
RECURSIVE RangeKeysDescending(_)
RangeKeysLast(S, k) == <<k>> \o RangeKeysDescending(S \ {k})
RangeKeysDescending(S) ==
    IF S = {} THEN <<>>
    ELSE RangeKeysLast(S, CHOOSE k \in S : \A o \in S \ {k} : StrLess(o, k))

\* the least key of a non-empty set of keys
MinKey(S) == CHOOSE k \in S : \A o \in S \ {k} : StrLess(k, o)

\* the order in which text/template's range visits the keys of a map with
\* string keys: sorted
RECURSIVE RangeKeys(_)
RangeKeysFirst(S, k) == <<k>> \o RangeKeys(S \ {k})
RangeKeys(S) ==
    IF S = {} THEN <<>>
    ELSE RangeKeysFirst(S, MinKey(S))

\* printf "%#v" $data: the formatter's Format, reading from its file
FormatData(f) ==
    IF f.fmt = "StringFormatter"
    THEN StringFormat(BytesRead(Resolve(f.file.name)))
    ELSE ByteSliceFormat(BytesRead(Resolve(f.file.name)))

\* the entries the range of tmpl writes
Entries(keys) ==
    [k \in 1..Len(keys) |-> [name |-> Quote(keys[k]), data |-> FormatData(Files[keys[k]])]]

-----------------------------------------------------------------------------
(* run *)

outName == <<"o">>

\* the roots a command line of the model is made of
ArgChoices ==
    {nameA, nameB, nameC, nameC \o <<Separator>> \o nameD, nameC \o <<Separator>> \o nameE,
     fileD, Dot, nameNope}

\* the values of -r
Prefixes == {<<>>, Cwd, <<"/", "x">>}

CommandLines == UNION {[1..n -> ArgChoices] : n \in 0..MaxArgs}

\* the files of the file system in Spec
SmallContent ==
    (fileA :> <<0, 1, 255, 122>>) @@ (fileB :> <<>>) @@ (fileD :> <<16, 171>>)

\* the runs of the model: a fault is injected only into runs that write to
\* a file (-o), a read fault only where the file holds that many bytes, and
\* the formatter varies only where a file is read to its end or to a read
\* fault
Environment(asString, o, f, c) ==
    /\ f # NoFault => o = outName
    /\ f.kind = "read" => f.at <= Len(c[f.path])
    /\ f.kind \notin {"none", "read"} => ~asString

Start ==
    /\ Files = EmptyMap
    /\ handles = EmptyBag
    /\ i = 0
    /\ pc = "collect"
    /\ result = "none"
    /\ outFile = "untouched"
    /\ written = <<>>

Init ==
    /\ args \in CommandLines
    /\ prefix \in Prefixes
    /\ AsString \in BOOLEAN
    /\ out \in {<<>>, outName}
    /\ content = SmallContent
    /\ fault \in Faults
    /\ Environment(AsString, out, fault, content)
    /\ Start

\* mutant of AfterAddPath: the error of AddPath is not returned
AfterAddPathGoesOn(err) == "collect"

\* where run goes after AddPath: on to the next root, or return err
AfterAddPath(err) == IF err = "nil" THEN "collect" ELSE "done"

\* one iteration of run's loop over fs.Args()
Collect ==
    /\ pc = "collect"
    /\ i < Len(args)
    /\ \E st \in AddPath(args[i + 1], prefix, CollectState(Files, handles, "nil")) :
         /\ Files' = st.Files
         /\ handles' = st.handles
         /\ i' = i + 1
         /\ pc' = AfterAddPath(st.err)
         /\ result' = IF st.err = "nil" THEN result ELSE st.err
    /\ UNCHANGED <<args, prefix, AsString, out, content, fault, outFile, written>>

\* the loop is over: os.Create(out), or os.Stdout
Create ==
    /\ pc = "collect"
    /\ i = Len(args)
    /\ IF out # <<>> /\ fault.kind = "create"
       THEN pc' = "done" /\ result' = "create" /\ UNCHANGED outFile
       ELSE /\ pc' = "execute"
            /\ outFile' = IF out # <<>> THEN "truncated" ELSE outFile
            /\ UNCHANGED result
    /\ UNCHANGED <<args, prefix, AsString, out, content, fault, Files, handles, i, written>>

\* return tmpl.Execute(file, vars)
Execute ==
    /\ pc = "execute"
    /\ written' = Entries(RangeKeys(DOMAIN Files))
    /\ outFile' = IF out # <<>> THEN "written" ELSE outFile
    /\ result' = "nil"
    /\ pc' = "done"
    /\ UNCHANGED <<args, prefix, AsString, out, content, fault, Files, handles, i>>

Next == Collect \/ Create \/ Execute

Spec == Init /\ [][Next]_vars

-----------------------------------------------------------------------------
(* The formatters on their own: one file a.txt, named on the command line, *)
(* whose bytes range over Inputs.                                          *)

Seeds == {32 * j : j \in 0..7}
Strides == {1, 17}

Inputs ==
    {[k \in 1..n |-> (seed + (k - 1) * stride) % 256] :
        n \in 0..MaxLen, seed \in Seeds, stride \in Strides}

InitFormat ==
    /\ args = <<nameA>>
    /\ prefix = <<>>
    /\ AsString \in BOOLEAN
    /\ out = <<>>
    /\ \E b \in Inputs : content = (fileA :> b) @@ SmallContent
    /\ fault = NoFault
    /\ Start

SpecFormat == InitFormat /\ [][Next]_vars

-----------------------------------------------------------------------------
(* Reading generated text back *)

IsHex(c) == \E d \in DOMAIN HexDigits : HexDigits[d] = c

HexVal(c) == (CHOOSE d \in DOMAIN HexDigits : HexDigits[d] = c) - 1

\* text t holds the token tok at position pos
HasAt(t, pos, tok) ==
    /\ pos >= 1
    /\ pos + Len(tok) - 1 <= Len(t)
    /\ SubSeq(t, pos, pos + Len(tok) - 1) = tok

\* text t holds two hex digits at position pos
HexAt(t, pos) == pos + 1 <= Len(t) /\ IsHex(t[pos]) /\ IsHex(t[pos + 1])

ByteAt(t, pos) == 16 * HexVal(t[pos]) + HexVal(t[pos + 1])

\* the bytes written at the positions ps of t, by increasing position
RECURSIVE ScanMarks(_, _)
ScanFirst(t, ps, p) == <<ByteAt(t, p + 2)>> \o ScanMarks(t, ps \ {p})
ScanMarks(t, ps) ==
    IF ps = {} THEN <<>>
    ELSE ScanFirst(t, ps, CHOOSE p \in ps : \A q \in ps : p <= q)

\* the bytes written after every occurrence of the two-character mark
\* ("0x" or "\x") followed by two hex digits in t, in order
ScanHex(t, mark) ==
    ScanMarks(t, {p \in 1..Len(t) : HasAt(t, p, mark) /\ HexAt(t, p + 2)})

Malformed == [ok |-> FALSE, parts |-> <<>>]

\* a byte slice literal read by its grammar:
\*   "[]byte{" { "\n\t\t" "0xHH," { " " "0xHH," } } "\n\t}"
\* parts holds the bytes of each line
RECURSIVE ParseLines(_, _, _), ParseLine(_, _, _, _)
ParseLines(t, pos, lines) ==
    IF HasAt(t, pos, <<"\n", "\t", "}">>) /\ pos + 2 = Len(t)
    THEN [ok |-> TRUE, parts |-> lines]
    ELSE IF HasAt(t, pos, <<"\n", "\t", "\t">>) THEN ParseLine(t, pos + 3, lines, <<>>)
    ELSE Malformed

ParseLine(t, pos, lines, cur) ==
    IF HasAt(t, pos, <<"0", "x">>) /\ HexAt(t, pos + 2) /\ HasAt(t, pos + 4, <<",">>)
    THEN IF HasAt(t, pos + 5, <<" ">>)
         THEN ParseLine(t, pos + 6, lines, Append(cur, ByteAt(t, pos + 2)))
         ELSE ParseLines(t, pos + 5, Append(lines, Append(cur, ByteAt(t, pos + 2))))
    ELSE Malformed

ParseByteSlice(t) ==
    IF HasAt(t, 1, <<"[", "]", "b", "y", "t", "e", "{">>) THEN ParseLines(t, 8, <<>>)
    ELSE Malformed

\* a string expression read by its grammar:
\*   "\"" { "\xHH" } "\"" { " +\n\t\t" "\"" { "\xHH" } "\"" }
\* parts holds the bytes of each sub-literal
RECURSIVE ParseChunk(_, _, _, _)
ParseChunk(t, pos, chunks, cur) ==
    IF HasAt(t, pos, <<"\\", "x">>) /\ HexAt(t, pos + 2)
    THEN ParseChunk(t, pos + 4, chunks, Append(cur, ByteAt(t, pos + 2)))
    ELSE IF HasAt(t, pos, <<"\"">>)
    THEN IF pos = Len(t) THEN [ok |-> TRUE, parts |-> Append(chunks, cur)]
         ELSE IF HasAt(t, pos + 1, <<" ", "+", "\n", "\t", "\t", "\"">>)
         THEN ParseChunk(t, pos + 7, Append(chunks, cur), <<>>)
         ELSE Malformed
    ELSE Malformed

ParseString(t) ==
    IF HasAt(t, 1, <<"\"">>) THEN ParseChunk(t, 2, <<>>, <<>>) ELSE Malformed

\* ceil(n / d)
CeilDiv(n, d) == (n + d - 1) \div d

\* every part but the last holds exactly cols bytes, the last 1 to cols
FullParts(parts, cols) ==
    \A k \in DOMAIN parts :
        IF k < Len(parts) THEN Len(parts[k]) = cols
        ELSE Len(parts[k]) >= 1 /\ Len(parts[k]) <= cols

Unquote(q) == SubSeq(q, 2, Len(q) - 1)

\* the file behind the k-th entry written, and the bytes it holds
EntryFile(k) == Resolve(Files[Unquote(written[k].name)].file.name)
EntryBytes(k) == content[EntryFile(k)]

\* run returned nil
Succeeded == pc = "done" /\ result = "nil"

-----------------------------------------------------------------------------
(* Claims about the formatters, under SpecFormat *)

\* C1: decoding the text either formatter emits for a file (the 0xHH
\* literals of the byte slice, the \xHH escapes of the string, in order)
\* yields exactly the file's bytes, the empty file and every byte value
\* included.
C1_RoundTrip ==
    Succeeded =>
        \A k \in DOMAIN written :
            ScanHex(written[k].data, IF AsString THEN <<"\\", "x">> ELSE <<"0", "x">>)
                = EntryBytes(k)

\* C1 witnesses: a file longer than a line, holding 0xff, written both ways
\* is covered by the two runs that differ in AsString; this one is the
\* string run.
C1_Witness ==
    /\ Succeeded
    /\ AsString
    /\ Len(written) = 1
    /\ Len(EntryBytes(1)) > StringCols
    /\ \E k \in DOMAIN EntryBytes(1) : EntryBytes(1)[k] = 255
    /\ ScanHex(written[1].data, <<"\\", "x">>) = EntryBytes(1)

\* C2: for a non-empty file of n bytes ByteSliceFormatter.Format emits
\* ceil(n/12) lines, each started by a newline and two tabs, holding 12
\* literals 0xHH each followed by a comma and separated by one space (the
\* last line 1 to 12), the literals being the file's bytes in order.
C2_ByteSliceLayout ==
    (Succeeded /\ ~AsString) =>
        \A k \in DOMAIN written :
            Len(EntryBytes(k)) > 0 =>
                /\ ParseByteSlice(written[k].data).ok
                /\ Len(ParseByteSlice(written[k].data).parts)
                       = CeilDiv(Len(EntryBytes(k)), ByteSliceCols)
                /\ FullParts(ParseByteSlice(written[k].data).parts, ByteSliceCols)
                /\ Concat(ParseByteSlice(written[k].data).parts) = EntryBytes(k)

\* C2 witness: a file of two full lines and one byte more has been written
\* as three lines.
C2_Witness ==
    /\ Succeeded
    /\ ~AsString
    /\ Len(written) = 1
    /\ Len(EntryBytes(1)) = 2 * ByteSliceCols + 1
    /\ Len(ParseByteSlice(written[1].data).parts) = 3

\* C3 as stated: for a non-empty file of n bytes StringFormatter.Format
\* emits exactly ceil(n/16) sub-literals, the first of them opened by the
\* opening quote and holding the first bytes.
C3_NoEmptyFirstChunk ==
    (Succeeded /\ AsString) =>
        \A k \in DOMAIN written :
            Len(EntryBytes(k)) > 0 =>
                /\ ParseString(written[k].data).ok
                /\ Len(ParseString(written[k].data).parts)
                       = CeilDiv(Len(EntryBytes(k)), StringCols)
                /\ ParseString(written[k].data).parts[1] # <<>>

\* C3 amended: for a non-empty file of n bytes StringFormatter.Format emits
\* ceil(n/16) + 1 sub-literals: the empty sub-literal "" opened by the
\* opening quote, then ceil(n/16) chunks of 16 escapes \xHH (the last 1 to
\* 16), the escapes being the file's bytes in order; for an empty file it
\* emits exactly "".
C3_StringLayout ==
    (Succeeded /\ AsString) =>
        \A k \in DOMAIN written :
            IF Len(EntryBytes(k)) = 0 THEN written[k].data = <<"\"", "\"">>
            ELSE /\ ParseString(written[k].data).ok
                 /\ Len(ParseString(written[k].data).parts)
                        = CeilDiv(Len(EntryBytes(k)), StringCols) + 1
                 /\ ParseString(written[k].data).parts[1] = <<>>
                 /\ FullParts(Tail(ParseString(written[k].data).parts), StringCols)
                 /\ Concat(ParseString(written[k].data).parts) = EntryBytes(k)

\* C3 witness: a file of two full chunks and one byte more has been written
\* as the empty sub-literal and three chunks.
C3_Witness ==
    /\ Succeeded
    /\ AsString
    /\ Len(written) = 1
    /\ Len(EntryBytes(1)) = 2 * StringCols + 1
    /\ Len(ParseString(written[1].data).parts) = 4
    /\ ParseString(written[1].data).parts[1] = <<>>

-----------------------------------------------------------------------------
(* Claims about a run, under Spec *)

\* the errors AddPath returns
CollectErrors == {"stat", "open", "readdir", "rel"}

\* run's loop has passed every root to AddPath and none returned an error
Collected == i = Len(args) /\ result \notin CollectErrors

\* the handles of regular files
FileHandles == {h \in BagToSet(handles) : ~h.dir}

\* the key climbs out of the prefix: it starts with ".."
Climbs(key) == HasAt(key, 1, DotDot) /\ (Len(key) = 2 \/ HasAt(key, 3, <<Separator>>))

\* the elements ds are the first elements of fs
Leads(ds, fs) == Len(ds) <= Len(fs) /\ SubSeq(fs, 1, Len(ds)) = ds

\* path f lies in the directory d or below it (both absolute and clean)
Below(d, f) == Leads(Elems(d, <<>>), Elems(f, <<>>))

\* the elements of fs after the first n
After(fs, n) == SubSeq(fs, n + 1, Len(fs))

\* the path AddPath reaches file f by, starting from root r
PathFrom(r, f) ==
    Join(r, JoinElems(After(Elems(f, <<>>), Len(Elems(Resolve(r), <<>>)))))

\* the name of the k-th entry written
EntryKey(k) == Unquote(written[k].name)

\* C4: the entries are written in ascending key order, one per key of the
\* mapping, whatever the order of the arguments and of the directory
\* listings was.
C4_SortedEntries ==
    Succeeded =>
        /\ Len(written) = Cardinality(DOMAIN Files)
        /\ {EntryKey(k) : k \in DOMAIN written} = DOMAIN Files
        /\ \A j, k \in DOMAIN written : j < k => StrLess(EntryKey(j), EntryKey(k))

\* C4 witness: b.txt was named before a.txt, and a.txt was written first.
C4_Witness ==
    /\ Succeeded
    /\ args = <<nameB, nameA>>
    /\ Len(written) = 2
    /\ EntryKey(1) = nameA
    /\ EntryKey(2) = nameB

\* C5: a read error met while a file is formatted makes the run return an
\* error.
C5_ReadErrorReported ==
    (pc = "done" /\ \E k \in DOMAIN written : ReadFails(EntryFile(k))) => result # "nil"

\* C6: when run has returned, every handle it opened is closed.
C6_HandlesClosed ==
    pc = "done" => \A h \in BagToSet(handles) : h.closed

\* C7: /a/b/c/d.txt is stored under c/d.txt with prefix /a/b (named by its
\* absolute path), and with the empty prefix from /a/b whether it is named
\* c/d.txt or /a/b/c/d.txt.
C7_Relativized ==
    ( /\ pc = "done"
      /\ fault = NoFault
      /\ \/ prefix = Cwd /\ args = <<fileD>>
         \/ prefix = <<>> /\ args = <<nameC \o <<Separator>> \o nameD>>
         \/ prefix = <<>> /\ args = <<fileD>> )
    => /\ result = "nil"
       /\ DOMAIN Files = {nameC \o <<Separator>> \o nameD}

\* key k leads from the prefix to the file named name, and climbs out of
\* the prefix exactly when the file does not lie under it
Stored(k, name) ==
    /\ Join(prefix, k) = Clean(name)
    /\ Climbs(k) <=> ~Below(Resolve(prefix), Resolve(name))

RootFiles ==
    {rf \in (DOMAIN args) \X RegularFiles :
        Stat(args[rf[1]]).ok /\ Below(Resolve(args[rf[1]]), rf[2])}

\* nothing stands in the way of collecting the roots: they exist, no open
\* or listing fails, and filepath.Rel can relate them to the prefix
Collectable ==
    /\ fault.kind \notin {"open", "readdir"}
    /\ \A j \in DOMAIN args :
          Stat(args[j]).ok /\ IsSlashed(prefix) = IsSlashed(args[j])

\* C9: when run's loop ends without an error the mapping holds exactly the keys of
\* the regular files below the roots, each bound to a handle of a regular
\* file and none to a directory; and directories, empty ones included,
\* never make the collection of collectable roots fail.
C9_ExactlyTheFiles ==
    /\ (Collected /\ pc = "collect") =>
          /\ DOMAIN Files = {Rel(prefix, PathFrom(args[rf[1]], rf[2])).val : rf \in RootFiles}
          /\ \A k \in DOMAIN Files : Files[k].file \in FileHandles
    /\ (pc = "done" /\ result \in CollectErrors) => ~Collectable

\* C9 witness: the directory c, which holds d.txt and the empty directory
\* e, was the only root and the mapping holds one entry.
C9_Witness ==
    /\ Succeeded
    /\ args = <<nameC>>
    /\ prefix = <<>>
    /\ DOMAIN Files = {nameC \o <<Separator>> \o nameD}

\* C10: an error of AddPath ends the run at once: no later root is visited,
\* and the output is neither created nor written; the output is created
\* only once every root has been collected.
C10_FailsBeforeOutput ==
    /\ result \in CollectErrors =>
          /\ pc = "done"
          /\ outFile = "untouched"
          /\ written = <<>>
          /\ \A h \in BagToSet(handles) :
                \E j \in 1..i : Below(Resolve(args[j]), Resolve(h.name))
    /\ outFile # "untouched" => Collected

\* C10 witness: the first of two roots does not exist; run has returned the
\* error, the second root was not visited and the file named by -o is
\* untouched.
C10_Witness ==
    /\ pc = "done"
    /\ result = "stat"
    /\ Len(args) = 2
    /\ args[1] = nameNope
    /\ args[2] = nameA
    /\ i = 1
    /\ handles = EmptyBag
    /\ out = outName
    /\ outFile = "untouched"

====
